---- MODULE Spec2Model ----
(***************************************************************************)
(* The Mandelbrot notebook (mandelbrot_numba.ipynb) as a state machine.    *)
(*                                                                         *)
(* The notebook runs four cells on arrays of one shape and one set of      *)
(* arguments: the interpreted create_fractal, a second call of it on the   *)
(* same array ("play with the coordinates"), the @autojit create_fractal   *)
(* on a fresh array, and the CUDA path (to_device, mandel_kernel, to_host).*)
(*                                                                         *)
(* Arithmetic.  The code computes in IEEE doubles.  The model computes in  *)
(* integers and draws the viewport and the image shape so that every pixel *)
(* size, every sample point and every orbit value below the escape radius  *)
(* is an integer: on those inputs the doubles of the code are exact, and   *)
(* the integers of the model are the values the code computes.             *)
(***************************************************************************)
EXTENDS Integers, Sequences, FiniteSets, TLC

\* ------------------------------------------------------------------ bounds
MaxWidth == 3
MaxHeight == 2
MaxIters == 3
MaxThreads == 4

\* Number of values of an np.uint8 element.
UINT8_RANGE == 256

\* [min_x, max_x, min_y, max_y]: the notebook's viewport, one with
\* min_x > max_x, one with min_y = max_y.
Viewports ==
  { [min_x |-> -2, max_x |-> 1, min_y |-> -1, max_y |-> 1],
    [min_x |-> 2, max_x |-> -1, min_y |-> -1, max_y |-> 1],
    [min_x |-> -2, max_x |-> 1, min_y |-> 1, max_y |-> 1] }

\* Iteration caps: zero, small ones, and one past the range of a byte.
Caps == (0 .. MaxIters) \cup {UINT8_RANGE}

Args == { [min_x |-> v.min_x, max_x |-> v.max_x, min_y |-> v.min_y,
           max_y |-> v.max_y, iters |-> n] : v \in Viewports, n \in Caps }

\* The shapes on which (max - min) / n is an integer (n = 0 is kept: the
\* division then fails, or yields a value nothing reads).
Exact(a, w, h) ==
  /\ IF w = 0 THEN TRUE ELSE (a.max_x - a.min_x) % w = 0
  /\ IF h = 0 THEN TRUE ELSE (a.max_y - a.min_y) % h = 0

Dim2 == { [x |-> i, y |-> j] : i \in 1 .. MaxThreads, j \in 1 .. MaxThreads }

\* Launch configurations [griddim, blockdim] of at most MaxThreads threads.
Launches ==
  { [griddim |-> g, blockdim |-> b] : g \in Dim2, b \in Dim2 }

VARIABLES
  width,     \* image.shape[1] of every array of the notebook
  height,    \* image.shape[0]
  args,      \* the arguments the notebook's cells pass
  cell,      \* the statement the host is at
  image,     \* the array `image`
  cf,        \* activation of the interpreted create_fractal
  written,   \* pixels stored by the current (or last) interpreted call
  prior,     \* `image` and the arguments as the previous call left them
  py_image,  \* `image` as the first cell showed it
  jit_status,\* how the @autojit call ended
  gimage,    \* the array `gimage`
  d_image,   \* the device array
  launch,    \* configuration of the launched kernel
  threads    \* the kernel's threads

vars == << width, height, args, cell, image, cf, written, prior, py_image,
           jit_status, gimage, d_image, launch, threads >>

\* ------------------------------------------------------------------ mandel
ComplexMul(a, b) ==
  [re |-> a.re * b.re - a.im * b.im, im |-> a.re * b.im + a.im * b.re]

ComplexAdd(a, b) == [re |-> a.re + b.re, im |-> a.im + b.im]

EscapedStrict(z) == z.re * z.re + z.im * z.im > 4

\* if (z.real*z.real + z.imag*z.imag) >= 4
Escaped(z) == z.re * z.re + z.im * z.im >= 4

\* The function's state s: z, whether it has returned, and the value it
\* returns (max_iters unless the loop returns an index).
\* The loop body at index i: z = z*z + c, and the return of i on escape.
mandel_body(c, s, i) ==
  LET z1 == ComplexAdd(ComplexMul(s.z, s.z), c)
  IN  IF Escaped(z1)
        THEN [z |-> z1, returned |-> TRUE, ret |-> i]
        ELSE [z |-> z1, returned |-> FALSE, ret |-> s.ret]

\* for i in range(lo, hi): the iterations in order from state s, split in
\* halves to keep the evaluation shallow.  p is the arguments, each
\* evaluated once.
RECURSIVE mandel_range(_, _, _, _)
mandel_range(c0, s0, lo0, hi0) ==
  LET Run(c, s, lo, hi) ==
        IF lo >= hi \/ s.returned
          THEN s
          ELSE IF hi = lo + 1
            THEN mandel_body(c, s, lo)
            ELSE LET mid == (lo + hi) \div 2
                 IN  mandel_range(c, mandel_range(c, s, lo, mid), mid, hi)
  IN  CHOOSE r \in { Run(p[1], p[2], p[3], p[4]) :
                      p \in {<<c0, s0, lo0, hi0>>} } : TRUE

mandel(x, y, max_iters) ==
  mandel_range([re |-> x, im |-> y],
               [z |-> [re |-> 0, im |-> 0], returned |-> FALSE,
                ret |-> max_iters],
               0, max_iters).ret

\* mandel compiled for the device; every count fits its uint32 result.
mandel_gpu(x, y, max_iters) == mandel(x, y, max_iters)

\* ------------------------------------------------------------------ arrays
\* np.zeros((h, w), dtype = np.uint8); element [y][x] is image[y, x].
Zeros(h, w) == [y \in 0 .. h - 1 |-> [x \in 0 .. w - 1 |-> 0]]

\* What a store into a uint8 element keeps of an integer.
ToUint8(v) == v % UINT8_RANGE

\* image[y, x] = v
Store(img, x, y, v) ==
  IF y \in DOMAIN img /\ x \in DOMAIN img[y]
    THEN [img EXCEPT ![y][x] = ToUint8(v)]
    ELSE img

\* ---------------------------------------------------------- create_fractal
pixel_size_x(a) == (a.max_x - a.min_x) \div width

pixel_size_y(a) == (a.max_y - a.min_y) \div height

RealOf(a, x) == a.min_x + x * pixel_size_x(a)

ImagOf(a, y) == a.min_y + y * pixel_size_y(a)

\* The division by image.shape raises ZeroDivisionError on an empty shape.
DivisionRaises == width = 0 \/ height = 0

Idle ==
  [status |-> "idle", a |-> args, x |-> 0, y |-> 0,
   real |-> 0, imag |-> 0, color |-> 0, has_color |-> FALSE]

Finished(status) == status \in {"returned", "raised"}

\* Entry of create_fractal: lines up to the first loop.
Call(a) ==
  /\ cf' = [Idle EXCEPT !.status = IF DivisionRaises THEN "raised" ELSE "running",
                        !.a = a]
  /\ written' = {}

\* One iteration of the inner loop, and the loops' exit after the last one.
StepCreateFractal ==
  /\ cf.status = "running"
  /\ LET real == RealOf(cf.a, cf.x)
         imag == ImagOf(cf.a, cf.y)
         color == mandel(real, imag, cf.a.iters)
         last_y == cf.y + 1 >= height
         last_x == cf.x + 1 >= width
     IN  /\ image' = Store(image, cf.x, cf.y, color)
         /\ written' = written \cup {<<cf.x, cf.y>>}
         /\ cf' = [cf EXCEPT !.real = real, !.imag = imag, !.color = color,
                             !.has_color = TRUE,
                             !.y = IF last_y THEN 0 ELSE cf.y + 1,
                             !.x = IF last_y THEN cf.x + 1 ELSE cf.x,
                             !.status = IF last_y /\ last_x
                                          THEN "returned" ELSE "running"]
  /\ UNCHANGED << width, height, args, cell, prior, py_image, jit_status,
                  gimage, d_image, launch, threads >>

NoPrior == [set |-> FALSE, image |-> << >>, a |-> args, status |-> "idle"]

\* First cell: create_fractal(-2.0, 1.0, -1.0, 1.0, image, 20)
CallPython ==
  /\ cell = "python"
  /\ cf.status = "idle"
  /\ Call(args)
  /\ UNCHANGED << width, height, args, cell, image, prior, py_image,
                  jit_status, gimage, d_image, launch, threads >>

\* imshow(image) of the first cell.
ShowPython ==
  /\ cell = "python"
  /\ Finished(cf.status)
  /\ cell' = "zoom"
  /\ py_image' = image
  /\ UNCHANGED << width, height, args, image, cf, written, prior, jit_status,
                  gimage, d_image, launch, threads >>

\* Second cell: create_fractal called again on the same array.
CallZoom(a) ==
  /\ cell = "zoom"
  /\ ~prior.set
  /\ Exact(a, width, height)
  /\ prior' = [set |-> TRUE, image |-> image, a |-> cf.a, status |-> cf.status]
  /\ Call(a)
  /\ UNCHANGED << width, height, args, cell, image, py_image, jit_status,
                  gimage, d_image, launch, threads >>

RECURSIVE create_fractal_loop(_, _, _, _)
create_fractal_loop(a, img, x, y) ==
  IF x >= width
    THEN img
    ELSE IF y >= height
      THEN create_fractal_loop(a, img, x + 1, 0)
      ELSE create_fractal_loop(
             a, Store(img, x, y, mandel(RealOf(a, x), ImagOf(a, y), a.iters)),
             x, y + 1)

\* The whole of the compiled create_fractal on array img: its outcomes.  On
\* an empty shape the compiled division either raises or yields a value that
\* nothing reads, as the compiler decides; no element is stored either way.
create_fractal(a, img) ==
  IF DivisionRaises
    THEN { [status |-> "raised", image |-> img],
           [status |-> "returned", image |-> img] }
    ELSE { [status |-> "returned",
            image |-> create_fractal_loop(a, img, 0, 0)] }

\* Third cell: image = np.zeros(...); the @autojit create_fractal(...).
AutojitCell ==
  /\ cell = "zoom"
  /\ Finished(cf.status)
  /\ \E r \in create_fractal(args, Zeros(height, width)) :
       /\ image' = r.image
       /\ jit_status' = r.status
  /\ cf' = Idle
  /\ written' = {}
  /\ prior' = NoPrior
  /\ cell' = "to_device"
  /\ UNCHANGED << width, height, args, py_image, gimage, d_image, launch,
                  threads >>

\* ------------------------------------------------------------------ device
NoLaunch == [griddim |-> [x |-> 0, y |-> 0], blockdim |-> [x |-> 0, y |-> 0]]

ThreadCount(l) == l.griddim.x * l.griddim.y * l.blockdim.x * l.blockdim.y

ThreadIds(l) ==
  { [bx |-> bx, by |-> by, tx |-> tx, ty |-> ty] :
      bx \in 0 .. l.griddim.x - 1, by \in 0 .. l.griddim.y - 1,
      tx \in 0 .. l.blockdim.x - 1, ty \in 0 .. l.blockdim.y - 1 }

\* startX, startY = cuda.grid(2)
startX(l, t) == l.blockdim.x * t.bx + t.tx

startY_thread(l, t) == t.ty

startY(l, t) == l.blockdim.y * t.by + t.ty

gridX_block(l) == l.blockdim.x

gridX(l) == l.griddim.x * l.blockdim.x

gridY(l) == l.griddim.y * l.blockdim.y

\* pixel sizes and sample point as mandel_kernel computes them
kernel_real(a, x) == a.min_x + x * pixel_size_x(a)

kernel_imag_x(a, y) == a.min_y + y * pixel_size_x(a)

kernel_imag(a, y) == a.min_y + y * pixel_size_y(a)

InRangeInclusive(i, n) == i <= n

\* range(start, n, step) still has index i
InRange(i, n) == i < n

NoPixel == <<-1, -1>>

\* The next indexes (x, y) the nested range loops reach from candidate
\* (x, y), or NoPixel when the outer loop is exhausted.
RECURSIVE NextIter(_, _, _, _)
NextIter(l, t, x, y) ==
  IF ~InRange(x, width)
    THEN NoPixel
    ELSE IF ~InRange(y, height)
      THEN NextIter(l, t, x + gridX(l), startY(l, t))
      ELSE <<x, y>>

\* d_image = cuda.to_device(gimage)
to_device ==
  /\ cell = "to_device"
  /\ d_image' = gimage
  /\ cell' = "launch"
  /\ UNCHANGED << width, height, args, image, cf, written, prior, py_image,
                  jit_status, gimage, launch, threads >>

\* mandel_kernel[griddim, blockdim](..., d_image, iters): the launch returns
\* to the host at once; the threads run on the device.
Launch(l) ==
  /\ cell = "launch"
  /\ ThreadCount(l) <= MaxThreads
  /\ launch' = l
  /\ threads' = [t \in ThreadIds(l) |->
                   [pc |-> "entry", x |-> 0, y |-> 0, log |-> << >>]]
  /\ cell' = "to_host"
  /\ UNCHANGED << width, height, args, image, cf, written, prior, py_image,
                  jit_status, gimage, d_image >>

\* A step of a thread of mandel_kernel: from its entry or its last store it
\* runs through its next store and on to where the loops either reach another
\* store or end (what a thread does between two stores touches no shared
\* state).  A thread with no store to make runs from its entry to its end.
ThreadStep(t) ==
  /\ threads[t].pc # "done"
  /\ \E nxt \in { IF threads[t].pc = "entry"
                     THEN NextIter(launch, t, startX(launch, t),
                                   startY(launch, t))
                     ELSE NextIter(launch, t, threads[t].x,
                                   threads[t].y + gridY(launch)) } :
       IF nxt = NoPixel
         THEN /\ threads' = [threads EXCEPT ![t].pc = "done"]
              /\ UNCHANGED d_image
         ELSE LET x == nxt[1]
                  y == nxt[2]
                  real == kernel_real(args, x)
                  imag == kernel_imag(args, y)
                  more == NextIter(launch, t, x, y + gridY(launch)) # NoPixel
              IN  /\ threads' = [threads EXCEPT
                                   ![t].pc = IF more THEN "loop" ELSE "done",
                                   ![t].x = x, ![t].y = y,
                                   ![t].log = Append(@, <<x, y>>)]
                  /\ d_image' = Store(d_image, x, y,
                                      mandel_gpu(real, imag, args.iters))
  /\ UNCHANGED << width, height, args, cell, image, cf, written, prior,
                  py_image, jit_status, gimage, launch >>

KernelStep == \E t \in DOMAIN threads : ThreadStep(t)

NoSync == TRUE

\* The copy is ordered after the kernel in the default stream.
StreamIdle == \A t \in DOMAIN threads : threads[t].pc = "done"

\* d_image.to_host(): copies the device array back into gimage.
to_host ==
  /\ cell = "to_host"
  /\ StreamIdle
  /\ gimage' = d_image
  /\ cell' = "end"
  /\ UNCHANGED << width, height, args, image, cf, written, prior, py_image,
                  jit_status, d_image, launch, threads >>

\* ------------------------------------------------------------ specification
Init ==
  /\ args \in Args
  /\ width \in 0 .. MaxWidth
  /\ height \in 0 .. MaxHeight
  /\ Exact(args, width, height)
  /\ cell = "python"
  /\ image = Zeros(height, width)
  /\ cf = Idle
  /\ written = {}
  /\ prior = NoPrior
  /\ py_image = << >>
  /\ jit_status = "idle"
  /\ gimage = Zeros(height, width)
  /\ d_image = << >>
  /\ launch = NoLaunch
  /\ threads = << >>

Next ==
  \/ CallPython
  \/ StepCreateFractal
  \/ ShowPython
  \/ \E a \in Args : CallZoom(a)
  \/ AutojitCell
  \/ to_device
  \/ \E l \in Launches : Launch(l)
  \/ KernelStep
  \/ to_host

Spec == Init /\ [][Next]_vars

\* The device runs every launched thread.
FairSpec == Spec /\ WF_vars(KernelStep)


\* ------------------------------------------------------------------ claims
Pixels == (0 .. width - 1) \X (0 .. height - 1)

\* The sample point of pixel (x, y) under arguments a, as the claims state it.
SampleX(a, x) == a.min_x + x * ((a.max_x - a.min_x) \div width)

SampleY(a, y) == a.min_y + y * ((a.max_y - a.min_y) \div height)

\* z*z + c, kept where it is once |z|^2 >= 4: the values after the first
\* escape do not matter to the smallest escaping index.
OrbitNext(c, z) ==
  IF z.re * z.re + z.im * z.im >= 4
    THEN z
    ELSE [re |-> z.re * z.re - z.im * z.im + c.re,
          im |-> 2 * z.re * z.im + c.im]

\* The k values that follow z.
RECURSIVE Orbit(_, _, _)
Orbit(c, z, k) ==
  IF k = 0
    THEN << >>
    ELSE IF k = 1
      THEN << OrbitNext(c, z) >>
      ELSE LET head == Orbit(c, z, k \div 2)
           IN  head \o Orbit(c, head[Len(head)], k - k \div 2)

\* The smallest i in [0, n) whose z after i+1 applications has escaped, or n.
EscapeTime(x, y, n) ==
  LET zs == Orbit([re |-> x, im |-> y], [re |-> 0, im |-> 0], n)
      esc == { i \in 0 .. n - 1 : zs[i + 1].re * zs[i + 1].re
                                  + zs[i + 1].im * zs[i + 1].im >= 4 }
  IN  IF esc = {} THEN n ELSE CHOOSE i \in esc : \A j \in esc : i <= j

\* The stores (thread, position in its log) the kernel made to pixel p.
WritesTo(p) ==
  { tk \in UNION { {t} \X DOMAIN threads[t].log : t \in DOMAIN threads } :
      threads[tk[1]].log[tk[2]] = p }

Launched == launch # NoLaunch

KernelFinished == Launched /\ \A t \in DOMAIN threads : threads[t].pc = "done"

\* C1: one launch of mandel_kernel stores every pixel of the image exactly
\* once, and the store to (x, y) is made by the thread whose start index is
\* (x mod gridX, y mod gridY), whatever the positive launch configuration.
C1_EveryPixelOnce ==
  Launched =>
    \A p \in Pixels :
      /\ Cardinality(WritesTo(p)) <= 1
      /\ KernelFinished => Cardinality(WritesTo(p)) = 1
      /\ \A tk \in WritesTo(p) :
           /\ startX(launch, tk[1])
                = p[1] % (launch.griddim.x * launch.blockdim.x)
           /\ startY(launch, tk[1])
                = p[2] % (launch.griddim.y * launch.blockdim.y)

\* A finished launch of several threads on an image of more pixels than
\* threads, one thread having stored several pixels.
C1_Witness ==
  /\ KernelFinished
  /\ ThreadCount(launch) > 1
  /\ Cardinality(Pixels) > ThreadCount(launch)
  /\ \E t \in DOMAIN threads : Len(threads[t].log) > 1

C3_MandelEscapeTime ==
  cf.has_color =>
    /\ cf.color = EscapeTime(cf.real, cf.imag, cf.a.iters)
    /\ cf.color \in 0 .. cf.a.iters
    /\ (cf.real = 0 /\ cf.imag = 0) => cf.color = cf.a.iters
    /\ (cf.real = 2 /\ cf.imag = 0 /\ cf.a.iters >= 1) => cf.color = 0

\* mandel has returned an index strictly inside the range: the point escaped
\* after some iterations that did not.
C3_Witness ==
  /\ cf.has_color
  /\ cf.color > 0
  /\ cf.color < cf.a.iters

Malformed(a) == a.min_x >= a.max_x \/ a.min_y >= a.max_y \/ a.iters <= 0

\* C4: create_fractal and mandel_kernel, called with a malformed viewport, a
\* non-positive cap or an empty image, end in an error raised before any
\* computation, and no element of the array has been stored.
C4_FailFast ==
  /\ (cf.status # "idle" /\ (Malformed(cf.a) \/ width = 0 \/ height = 0))
       => (cf.status = "raised" /\ written = {})
  /\ (Launched /\ (Malformed(args) \/ width = 0 \/ height = 0))
       => \A t \in DOMAIN threads : threads[t].log = << >>

Min(a, b) == IF a <= b THEN a ELSE b

\* C5: every value create_fractal or the kernel stores is the pixel's count
\* clamped to [0, 255]: min(mandel(real, imag, iters), 255), never a value
\* wrapped modulo 256.
C5_Clamped ==
  /\ \A p \in written :
       image[p[2]][p[1]]
         = Min(mandel(SampleX(cf.a, p[1]), SampleY(cf.a, p[2]), cf.a.iters),
               UINT8_RANGE - 1)
  /\ \A p \in Pixels :
       WritesTo(p) # {} =>
         d_image[p[2]][p[1]]
           = Min(mandel(SampleX(args, p[1]), SampleY(args, p[2]), args.iters),
                 UINT8_RANGE - 1)

\* C6: with the viewport and the shape fixed, the array rendered with cap N2
\* is pixel by pixel at least the array rendered with cap N1 <= N2.
C6_MonotonicCap ==
  ( /\ prior.set
    /\ prior.status = "returned"
    /\ cf.status = "returned"
    /\ prior.a.min_x = cf.a.min_x /\ prior.a.max_x = cf.a.max_x
    /\ prior.a.min_y = cf.a.min_y /\ prior.a.max_y = cf.a.max_y
    /\ prior.a.iters <= cf.a.iters )
    => \A p \in Pixels : image[p[2]][p[1]] >= prior.image[p[2]][p[1]]

\* C7: after create_fractal returns, whatever the array held before, every
\* element image[y, x] equals mandel at the pixel's sample point, every
\* element has been stored, and the array has the shape it had.
C7_Overwrites ==
  cf.status = "returned" =>
    /\ \A p \in Pixels :
         image[p[2]][p[1]]
           = mandel(SampleX(cf.a, p[1]), SampleY(cf.a, p[2]), cf.a.iters)
    /\ written = Pixels
    /\ DOMAIN image = 0 .. height - 1
    /\ \A y \in DOMAIN image : DOMAIN image[y] = 0 .. width - 1

C9_OrderIndependent ==
  Launched =>
    \A p \in Pixels :
      d_image[p[2]][p[1]]
        = IF WritesTo(p) # {}
            THEN ToUint8(mandel(SampleX(args, p[1]), SampleY(args, p[2]),
                                args.iters))
            ELSE 0

\* Two threads are both in their loops, one pixel stored with a nonzero
\* value and another not yet stored.
C9_Witness ==
  /\ Launched
  /\ \E t \in DOMAIN threads, u \in DOMAIN threads :
       t # u /\ threads[t].pc = "loop" /\ threads[u].pc = "loop"
  /\ \E p \in Pixels, q \in Pixels :
       /\ WritesTo(p) # {} /\ d_image[p[2]][p[1]] # 0
       /\ WritesTo(q) = {}

StoresInBounds ==
  \A t \in DOMAIN threads :
    /\ \A k \in DOMAIN threads[t].log :
         /\ threads[t].log[k][1] \in 0 .. width - 1
         /\ threads[t].log[k][2] \in 0 .. height - 1
    /\ (startX(launch, t) >= width \/ startY(launch, t) >= height)
         => threads[t].log = << >>

\* C10: every thread of a launch terminates, every store it makes is to an
\* index inside the image, and a thread whose start index lies outside the
\* image makes no store.
C10_InBoundsAndTerminates ==
  /\ [](Launched => StoresInBounds)
  /\ (Launched ~> KernelFinished)

\* A finished launch on a nonempty image in which a thread started outside
\* the image.
C10_Witness ==
  /\ KernelFinished
  /\ Pixels # {}
  /\ \E t \in DOMAIN threads :
       /\ startX(launch, t) >= width \/ startY(launch, t) >= height
       /\ threads[t].log = << >>

====
